---- MODULE Spec2Model ----
(***************************************************************************)
(* Electrode addressing of the multi-well MEA chip (elecmap.py): the       *)
(* per-well layout tables, the inverse table, the pixel tables and the     *)
(* conversions between canonical index and (well, coordinate).             *)
(*                                                                         *)
(* Python values are modelled as follows.                                  *)
(*   - a numpy 2-D array is a function rows -> (columns -> Int), both      *)
(*     0-based;                                                            *)
(*   - a number is a record [dim, data]: dim = 0 is a scalar whose value   *)
(*     is data[1], dim = 1 is a 1-D numpy array holding data;              *)
(*   - a pair is a record [cls, items]: cls is "tuple" for a plain tuple   *)
(*     and "Coord" for the namedtuple Coord, whose fields x, y are         *)
(*     items[1], items[2];                                                 *)
(*   - a dict is a record [order, at]: the keys in insertion order and     *)
(*     the value of each key;                                              *)
(*   - the outcome of a call is a record whose field exc is "none" when    *)
(*     the call returned and the exception's class name when it raised.    *)
(***************************************************************************)
EXTENDS Integers, Sequences, FiniteSets, TLC

(* ---------------------------------------------------------------------- *)
(* Bounds of the explored inputs                                           *)
(* ---------------------------------------------------------------------- *)
\* canonical indices passed to the operations range over 0..MaxCanonArg
MaxCanonArg == 4097
\* coordinates passed to the operations range over 0..MaxCoordArg
MaxCoordArg == 17

(* ---------------------------------------------------------------------- *)
(* Program constants                                                       *)
(* ---------------------------------------------------------------------- *)
_WELL_SIZE == [x |-> 16, y |-> 16]
NUM_PIXEL == _WELL_SIZE.x * _WELL_SIZE.y
\* the members of the enum WellNumber, by value
WellNumber == 1..16
\* range(4) of the multiplexer loop
MuxRange == 4

(* ---------------------------------------------------------------------- *)
(* numpy helpers                                                           *)
(* ---------------------------------------------------------------------- *)
NRows(m) == Cardinality(DOMAIN m)
NCols(m) == Cardinality(DOMAIN m[0])

\* np.arange(start, stop): the integers start .. stop-1, in order
Arange(start, stop) == [i \in 1..(stop - start) |-> start + i - 1]

\* ndarray.reshape(shape), C (row-major) order
Reshape(flat, shape) ==
    [r \in 0..(shape.x - 1) |-> [c \in 0..(shape.y - 1) |-> flat[r * shape.y + c + 1]]]

\* ndarray.transpose()
Transpose(m) ==
    [r \in 0..(NCols(m) - 1) |-> [c \in 0..(NRows(m) - 1) |-> m[c][r]]]

\* np.fliplr: reverse the order of the columns
Fliplr(m) ==
    [r \in DOMAIN m |-> [c \in DOMAIN m[r] |-> m[r][NCols(m) - 1 - c]]]

\* np.flipud: reverse the order of the rows
Flipud(m) ==
    [r \in DOMAIN m |-> [c \in DOMAIN m[r] |-> m[NRows(m) - 1 - r][c]]]

\* ndarray.flat / ndarray.flatten(): the cells in row-major order
Flat(m) ==
    [i \in 1..(NRows(m) * NCols(m)) |-> m[(i - 1) \div NCols(m)][(i - 1) % NCols(m)]]

\* the set of the values held by an array
Values(m) == {m[r][c] : r \in DOMAIN m, c \in DOMAIN m[0]}

\* np.nonzero(v == x) / np.where(arr == val): the row indices and the column
\* indices of the matching cells, in row-major order, each as a 1-D array
Nonzero(v, x) ==
    LET nc == NCols(v)
        cells == [i \in 1..(NRows(v) * nc) |-> i]
        hits == SelectSeq(cells, LAMBDA i : v[(i - 1) \div nc][(i - 1) % nc] = x)
    IN  << [dim |-> 1, data |-> [i \in 1..Len(hits) |-> (hits[i] - 1) \div nc]],
           [dim |-> 1, data |-> [i \in 1..Len(hits) |-> (hits[i] - 1) % nc]] >>

\* a Python int
Scalar(n) == [dim |-> 0, data |-> <<n>>]
\* number + k, elementwise on an array
NumAdd(n, k) == [dim |-> n.dim, data |-> [i \in 1..Len(n.data) |-> n.data[i] + k]]

(* ---------------------------------------------------------------------- *)
(* The geometric transforms                                                *)
(* ---------------------------------------------------------------------- *)
\* a variant of the next transform that mirrors the rows instead of the columns
top_right_to_bottom_left_flipud(indices) == Flipud(Transpose(indices))

_top_right_to_bottom_left_column(indices) == Fliplr(Transpose(indices))

_bottom_right_to_top_left_column(indices) == Flipud(Fliplr(Transpose(indices)))

_top_left_to_bottom_right_column(indices) == Transpose(indices)

\* a variant of the next transform that mirrors the columns instead of the rows
bottom_left_to_top_right_fliplr(indices) == Fliplr(Transpose(indices))

_bottom_left_to_top_right_column(indices) == Flipud(Transpose(indices))

\* the assertion guarding _to_well_shape
ToWellShapeAssert(start, end) == (end - start) = 255

\* a variant of _to_well_shape whose range starts one index late
to_well_shape_off_by_one(start, end) == Reshape(Arange(start + 1, end + 2), _WELL_SIZE)

\* the array _to_well_shape returns once its assertion has passed
_to_well_shape(start, end) == Reshape(Arange(start, end + 1), _WELL_SIZE)

(* ---------------------------------------------------------------------- *)
(* The tables built when the module is imported                            *)
(* ---------------------------------------------------------------------- *)
\* the entries of the literal _CONVERSION_DICT, in source order:
\* well, transform, first and last canonical index of the well's range
ConversionEntries ==
    << [well |-> 5,  tr |-> "top_right_to_bottom_left", start |-> 1,    end |-> 256],
       [well |-> 7,  tr |-> "top_right_to_bottom_left", start |-> 257,  end |-> 512],
       [well |-> 6,  tr |-> "bottom_right_to_top_left", start |-> 513,  end |-> 768],
       [well |-> 8,  tr |-> "bottom_right_to_top_left", start |-> 769,  end |-> 1024],
       [well |-> 13, tr |-> "bottom_right_to_top_left", start |-> 1025, end |-> 1280],
       [well |-> 15, tr |-> "bottom_right_to_top_left", start |-> 1281, end |-> 1536],
       [well |-> 14, tr |-> "top_right_to_bottom_left", start |-> 1537, end |-> 1792],
       [well |-> 16, tr |-> "top_right_to_bottom_left", start |-> 1793, end |-> 2048],
       [well |-> 1,  tr |-> "top_left_to_bottom_right", start |-> 2049, end |-> 2304],
       [well |-> 3,  tr |-> "top_left_to_bottom_right", start |-> 2305, end |-> 2560],
       [well |-> 2,  tr |-> "bottom_left_to_top_right", start |-> 2561, end |-> 2816],
       [well |-> 4,  tr |-> "bottom_left_to_top_right", start |-> 2817, end |-> 3072],
       [well |-> 9,  tr |-> "bottom_left_to_top_right", start |-> 3073, end |-> 3328],
       [well |-> 11, tr |-> "bottom_left_to_top_right", start |-> 3329, end |-> 3584],
       [well |-> 10, tr |-> "top_left_to_bottom_right", start |-> 3585, end |-> 3840],
       [well |-> 12, tr |-> "top_left_to_bottom_right", start |-> 3841, end |-> 4096] >>

\* the transform an entry of the literal calls
ApplyTransform(tr, indices) ==
    CASE tr = "top_right_to_bottom_left" -> _top_right_to_bottom_left_column(indices)
      [] tr = "bottom_right_to_top_left" -> _bottom_right_to_top_left_column(indices)
      [] tr = "top_left_to_bottom_right" -> _top_left_to_bottom_right_column(indices)
      [] tr = "bottom_left_to_top_right" -> _bottom_left_to_top_right_column(indices)

\* the entry of the literal whose key is well w
EntryOf(w) ==
    ConversionEntries[CHOOSE i \in 1..Len(ConversionEntries) : ConversionEntries[i].well = w]

\* the dict literal _CONVERSION_DICT: well -> 16x16 array of canonical indices
_CONVERSION_DICT ==
    [order |-> [i \in 1..Len(ConversionEntries) |-> ConversionEntries[i].well],
     at    |-> [w \in WellNumber |->
                  ApplyTransform(EntryOf(w).tr,
                                 _to_well_shape(EntryOf(w).start, EntryOf(w).end))]]

\* the loop of _dict_inversion from the i-th item of dict_ on: for every cell
\* value x of the item's array v, inv_dict.setdefault(x, (k, np.nonzero(v == x)))
\* keeps the entry x already has and adds one otherwise
RECURSIVE DictInversionFrom(_, _, _)
DictInversionFrom(dict_, i, inv_dict) ==
    IF i > Len(dict_.order)
    THEN inv_dict
    ELSE LET k == dict_.order[i]
             v == dict_.at[k]
         IN  DictInversionFrom(dict_, i + 1,
                 inv_dict @@ [x \in Values(v) |-> [well |-> k, idx |-> Nonzero(v, x)]])

\* _dict_inversion(dict_)
_dict_inversion(dict_) == DictInversionFrom(dict_, 1, << >>)

\* variants of _index_to_pixel: a multiplex factor of 2, no offset of the
\* canonical index, and the channel as the outer loop
index_to_pixel_factor2(w) ==
    [j \in 1..(MuxRange * Len(w)) |->
        2 * (w[((j - 1) \div MuxRange) + 1] - 1) + ((j - 1) % MuxRange)]

index_to_pixel_no_offset(w) ==
    [j \in 1..(MuxRange * Len(w)) |->
        4 * w[((j - 1) \div MuxRange) + 1] + ((j - 1) % MuxRange)]

index_to_pixel_channel_major(w) ==
    [j \in 1..(MuxRange * Len(w)) |->
        4 * (w[((j - 1) % Len(w)) + 1] - 1) + ((j - 1) \div Len(w))]

\* _index_to_pixel: 4 * (x - 1) + i for x in w for i in range(4)
_index_to_pixel(w) ==
    [j \in 1..(MuxRange * Len(w)) |->
        4 * (w[((j - 1) \div MuxRange) + 1] - 1) + ((j - 1) % MuxRange)]

\* canonical index -> (well, np.nonzero result)
_CONVERSION_DICT_INV == _dict_inversion(_CONVERSION_DICT)

\* the dict literal WELL_PIXEL: well -> list of pixel indices
WELL_PIXEL == [w \in WellNumber |-> _index_to_pixel(Flat(_CONVERSION_DICT.at[w]))]

(* ---------------------------------------------------------------------- *)
(* State                                                                   *)
(* ---------------------------------------------------------------------- *)
\* The three tables above are module-level values computed once by the
\* import; no function or method of the module assigns to them or to their
\* cells.  The state is what a caller of the module holds.
VARIABLES
    call,                  \* the call made after the import, with its arguments
    ret,                   \* its outcome
    obj,                   \* the ElecMapIndex the construction returned
    allocated,             \* the number of Electrode objects constructed so far
    wellA,                 \* the ElecWell a caller holds
    wellB,                 \* the ElecWell a second call of get_well returned
    table_writes,          \* the module-level tables assigned to since the import
    mapper,                \* the ElectrodeMapper of electrode_mapper.py
    manager,               \* the SelectionManager of selection_manager.py
    objects                \* the SelectionList objects alive, by identity

\* what the calls on the conversion functions leave alone
rest == << allocated, wellA, wellB, table_writes, mapper, manager, objects >>
vars == << call, ret, obj, rest >>

\* Python's None where a well, a number, a pair is expected
NoneWell == 0
NoneNum == [dim |-> 0, data |-> << >>]
NonePair == [cls |-> "None", items |-> << >>]
\* no ElecMapIndex object
NoObject == [made |-> FALSE, attrs |-> {}, _canonical_idx |-> NoneNum,
             well |-> NoneWell, coord |-> NonePair]

\* outcomes: an exception, a returned canonical index, a returned 2-D index
Raised(e) == [exc |-> e, kind |-> "none", num |-> NoneNum, well |-> NoneWell, coord |-> NonePair]
Returned(n) == [exc |-> "none", kind |-> "index", num |-> n, well |-> NoneWell, coord |-> NonePair]
Returned2d(w, p) == [exc |-> "none", kind |-> "index2d", num |-> NoneNum, well |-> w, coord |-> p]
ReturnedObject == [exc |-> "none", kind |-> "object", num |-> NoneNum, well |-> NoneWell, coord |-> NonePair]

\* the plain tuple (a, b) and the namedtuple Coord(a, b)
Tuple(a, b) == [cls |-> "tuple", items |-> <<a, b>>]
Coord(a, b) == [cls |-> "Coord", items |-> <<a, b>>]

(* ---------------------------------------------------------------------- *)
(* The conversions                                                         *)
(* ---------------------------------------------------------------------- *)
\* arr[i, j] of numpy for two integers: a negative index counts from the end,
\* an index outside the axis raises IndexError
NumpyIndex(arr, i, j) ==
    LET nr == NRows(arr)
        nc == NCols(arr)
        ii == IF i < 0 THEN i + nr ELSE i
        jj == IF j < 0 THEN j + nc ELSE j
    IN  IF ii \in 0..(nr - 1) /\ jj \in 0..(nc - 1)
        THEN Returned(Scalar(arr[ii][jj]))
        ELSE Raised("IndexError")

\* arr[i, j] of numpy for two numbers; two 1-D arrays of one length select
\* the cells pairwise and give a 1-D array
NumpyGetItem(arr, i, j) ==
    IF i.dim = 0 /\ j.dim = 0
    THEN NumpyIndex(arr, i.data[1], j.data[1])
    ELSE LET n == IF i.dim = 1 THEN Len(i.data) ELSE Len(j.data)
             at(k, a) == IF a.dim = 0 THEN a.data[1] ELSE a.data[k]
             cell(k) == NumpyIndex(arr, at(k, i), at(k, j))
         IN  IF i.dim = 1 /\ j.dim = 1 /\ Len(i.data) # Len(j.data)
             THEN Raised("IndexError")
             ELSE IF \E k \in 1..n : cell(k).exc # "none"
                  THEN Raised("IndexError")
                  ELSE Returned([dim |-> 1, data |-> [k \in 1..n |-> cell(k).num.data[1]]])

\* attribute access pair.name: only the namedtuple Coord has fields x and y
HasAttr(pair, name) == pair.cls = "Coord" /\ name \in {"x", "y"}
GetAttr(pair, name) == IF name = "x" THEN pair.items[1] ELSE pair.items[2]

\* get_canonical_index(index2d), index2d = (well_number, pair)
get_canonical_index(well_number, pair) ==
    LET coordinate == [cls |-> "tuple",
                       items |-> [i \in 1..Len(pair.items) |-> NumAdd(pair.items[i], 0 - 1)]]
    IN  IF well_number \notin DOMAIN _CONVERSION_DICT.at
        THEN Raised("KeyError")
        ELSE IF ~HasAttr(coordinate, "y") \/ ~HasAttr(coordinate, "x")
        THEN Raised("AttributeError")
        ELSE NumpyGetItem(_CONVERSION_DICT.at[well_number],
                          GetAttr(coordinate, "y"), GetAttr(coordinate, "x"))

\* get_well_index: _CONVERSION_DICT_INV.get(canonical_idx)[0]; dict.get gives
\* None for an absent key and subscripting None raises TypeError
get_well_index(canonical_idx) ==
    IF canonical_idx \in DOMAIN _CONVERSION_DICT_INV
    THEN Returned2d(_CONVERSION_DICT_INV[canonical_idx].well, NonePair)
    ELSE Raised("TypeError")

\* _get_element_index(arr, val): the list [Coord(rows, cols)] of np.where
_get_element_index(arr, val) ==
    LET result == Nonzero(arr, val)
    IN  << Coord(result[1], result[2]) >>

\* get_2d_index(canonical_idx)
get_2d_index(canonical_idx) ==
    LET got == get_well_index(canonical_idx)
    IN  IF got.exc # "none" THEN got
        ELSE IF got.well = NoneWell THEN Raised("LookupError")
        ELSE LET result == _get_element_index(_CONVERSION_DICT.at[got.well], canonical_idx)
             IN  IF Len(result) # 1 THEN Raised("AssertionError")
                 ELSE Returned2d(got.well,
                                 Tuple(NumAdd(result[1].items[1], 1),
                                       NumAdd(result[1].items[2], 1)))

(* ---------------------------------------------------------------------- *)
(* ElecMapIndex                                                            *)
(* ---------------------------------------------------------------------- *)
\* a variant of the constructor without the check for two arguments: the
\* canonical index is preferred
ElecMapIndex_init_prefers_canonical(has2d, well, pair, hasCanon, canonical_idx) ==
    IF hasCanon
    THEN LET r == get_2d_index(canonical_idx)
         IN  IF r.exc # "none"
             THEN [out |-> r, new |-> NoObject]
             ELSE [out |-> ReturnedObject,
                   new |-> [made |-> TRUE, attrs |-> {"_canonical_idx", "_index2d"},
                            _canonical_idx |-> Scalar(canonical_idx),
                            well |-> r.well, coord |-> r.coord]]
    ELSE IF has2d
    THEN LET r == get_canonical_index(well, pair)
         IN  IF r.exc # "none"
             THEN [out |-> r, new |-> NoObject]
             ELSE [out |-> ReturnedObject,
                   new |-> [made |-> TRUE, attrs |-> {"_canonical_idx", "_index2d"},
                            _canonical_idx |-> r.num,
                            well |-> well, coord |-> pair]]
    ELSE [out |-> ReturnedObject,
          new |-> [made |-> TRUE, attrs |-> {}, _canonical_idx |-> NoneNum,
                   well |-> NoneWell, coord |-> NonePair]]

\* ElecMapIndex.__init__(index2d, canonical_idx); an argument that is None is
\* given by has2d = FALSE, hasCanon = FALSE.  The result is the outcome of
\* the constructor call and the object it returned (none when it raised).
ElecMapIndex_init(has2d, well, pair, hasCanon, canonical_idx) ==
    IF hasCanon /\ has2d
    THEN [out |-> Raised("RuntimeError"), new |-> NoObject]
    ELSE IF hasCanon
    THEN LET r == get_2d_index(canonical_idx)
         IN  IF r.exc # "none"
             THEN [out |-> r, new |-> NoObject]
             ELSE [out |-> ReturnedObject,
                   new |-> [made |-> TRUE, attrs |-> {"_canonical_idx", "_index2d"},
                            _canonical_idx |-> Scalar(canonical_idx),
                            well |-> r.well, coord |-> r.coord]]
    ELSE IF has2d
    THEN LET r == get_canonical_index(well, pair)
         IN  IF r.exc # "none"
             THEN [out |-> r, new |-> NoObject]
             ELSE [out |-> ReturnedObject,
                   new |-> [made |-> TRUE, attrs |-> {"_canonical_idx", "_index2d"},
                            _canonical_idx |-> r.num,
                            well |-> well, coord |-> pair]]
    ELSE [out |-> ReturnedObject,
          new |-> [made |-> TRUE, attrs |-> {}, _canonical_idx |-> NoneNum,
                   well |-> NoneWell, coord |-> NonePair]]

(* ---------------------------------------------------------------------- *)
(* Electrode, ElecWell, get_electrodes, get_well                           *)
(* ---------------------------------------------------------------------- *)
\* An Electrode is a mutable object.  A reference to it is written as the
\* record of its attributes together with its identity `id` (the order of
\* construction); an assignment to an attribute of the object changes every
\* reference with that identity, in whichever array it is held.
OpMode == {"VSTIM", "ISTIM", "REC"}
ElectrodesPerCell == 4

\* no ElecWell
NoWell == [made |-> FALSE, well_number |-> NoneWell, electrodes |-> << >>]

\* Electrode(index, multiplexer, state, mode) as the object number id:
\* hasState FALSE is state=None
Electrode_init(id, index, multiplexer, hasState, state, mode) ==
    [id |-> id, index |-> index, multiplexer |-> multiplexer,
     state |-> IF hasState THEN state ELSE FALSE, mode |-> mode]

\* ElecMapIndex(canonical_idx=x), for the indices x the layout arrays hold
ElecMapIndexOf ==
    [x \in DOMAIN _CONVERSION_DICT_INV |->
        ElecMapIndex_init(FALSE, NoneWell, NonePair, TRUE, x)]

\* _CONVERSION_DICT[well_number].flat
LayoutFlat == [w \in WellNumber |-> Flat(_CONVERSION_DICT.at[w])]

\* a variant: every electrode of the list is channel 0
get_electrodes_channel0(indices, first) ==
    [i \in 1..ElectrodesPerCell |->
        Electrode_init(first + i, indices, 0, FALSE, FALSE, "VSTIM")]

\* get_electrodes(indices): `indices is np.ndarray[ElecMapIndex]` compares
\* with a generic alias made on the spot and is false, so the result is the
\* list of four new electrodes, which share the one index object; `first`
\* objects were constructed before
get_electrodes(indices, first) ==
    [i \in 1..ElectrodesPerCell |->
        Electrode_init(first + i, indices, i - 1, FALSE, FALSE, "VSTIM")]

\* ElecWell(well_number, electrodes)
ElecWell_init(well_number, electrodes) ==
    [made |-> TRUE, well_number |-> well_number, electrodes |-> electrodes]

\* np.vectorize(lambda x: get_electrodes(ElecMapIndex(canonical_idx=x)))(layout)
\* after n electrodes were constructed, index[x] being the outcome of
\* ElecMapIndex(canonical_idx=x): the outcome, the object array built over
\* the layout, cell by cell in flat order, and the number of electrodes
\* constructed by then
VectorizeElectrodes(n, layout, index) ==
    LET failed == {x \in Values(layout) : index[x].out.exc # "none"}
    IN  IF failed # {}
        THEN [out |-> index[CHOOSE x \in failed : TRUE].out,
              electrodes |-> << >>, allocated |-> n]
        ELSE [out |-> ReturnedObject,
              electrodes |->
                 [r \in DOMAIN layout |->
                     [c \in DOMAIN layout[r] |->
                         get_electrodes(
                             index[layout[r][c]].new,
                             n + ElectrodesPerCell * (r * NCols(layout) + c))]],
              allocated |-> n + NRows(layout) * NCols(layout) * ElectrodesPerCell]

\* the outcome of get_well, the ElecWell it returned (none when it raised)
\* and the number of electrodes constructed by then
WellOver(well_number, v) ==
    [out |-> v.out,
     well |-> IF v.out.exc # "none" THEN NoWell
              ELSE ElecWell_init(well_number, v.electrodes),
     allocated |-> v.allocated]

\* a variant: a second call hands out the electrodes of the first call again
get_well_cached(n, well_number) ==
    WellOver(well_number,
             VectorizeElectrodes(0, _CONVERSION_DICT.at[well_number], ElecMapIndexOf))

\* get_well(well_number) after n electrodes were constructed
get_well(n, well_number) ==
    WellOver(well_number,
             VectorizeElectrodes(n, _CONVERSION_DICT.at[well_number], ElecMapIndexOf))

\* ElecWell.__getitem__(key): the list of electrodes of flat position key
ElecWell_getitem(well, key) == Flat(well.electrodes)[key + 1]
\* ElecWell.__len__()
ElecWell_len(well) == Len(Flat(well.electrodes))

\* the identities of the electrodes an ElecWell holds
Ids(well) ==
    IF ~well.made THEN {}
    ELSE {well.electrodes[r][c][m].id :
             r \in DOMAIN well.electrodes, c \in DOMAIN well.electrodes[0],
             m \in 1..ElectrodesPerCell}

\* a variant: change_well also switches the electrodes it re-indexes off
change_well_resets(well, well_number) ==
    LET cells == LayoutFlat[well_number]
        a == well.electrodes
    IN  [well EXCEPT
            !.well_number = well_number,
            !.electrodes =
                [r \in DOMAIN a |->
                    [c \in DOMAIN a[r] |->
                        IF r * NCols(a) + c + 1 > Len(cells) THEN a[r][c]
                        ELSE [m \in DOMAIN a[r][c] |->
                                 [a[r][c][m] EXCEPT
                                     !.index = ElecMapIndexOf[cells[r * NCols(a) + c + 1]].new,
                                     !.state = FALSE]]]]]

\* well.change_well(well_number): over zip(self.electrodes.flat,
\* _CONVERSION_DICT[well_number].flat), every electrode e of the list at
\* flat position i is assigned e.index = ElecMapIndex(canonical_idx=idx)
\* with idx the layout's cell i (each electrode is held at one position)
change_well(well, well_number) ==
    LET cells == LayoutFlat[well_number]
        a == well.electrodes
    IN  [well EXCEPT
            !.well_number = well_number,
            !.electrodes =
                [r \in DOMAIN a |->
                    [c \in DOMAIN a[r] |->
                        IF r * NCols(a) + c + 1 > Len(cells) THEN a[r][c]
                        ELSE [m \in DOMAIN a[r][c] |->
                                 [a[r][c][m] EXCEPT
                                     !.index = ElecMapIndexOf[cells[r * NCols(a) + c + 1]].new]]]]]

\* the reference e as it reads once every electrode of `changed` holds the
\* attributes it holds there
Reread(e, changed) ==
    LET a == changed.electrodes
        at == {<< r, c, m >> \in (DOMAIN a) \X (DOMAIN a[0]) \X (1..ElectrodesPerCell) :
                  a[r][c][m].id = e.id}
    IN  IF at = {} THEN e
        ELSE LET p == CHOOSE p \in at : TRUE IN a[p[1]][p[2]][p[3]]

\* the ElecWell `other` as it reads after an operation turned another
\* ElecWell into `changed`: the electrodes the two share read as in `changed`
SeenAfter(other, changed) ==
    IF ~other.made \/ Ids(other) \cap Ids(changed) = {} THEN other
    ELSE [other EXCEPT
             !.electrodes =
                 [r \in DOMAIN @ |->
                     [c \in DOMAIN @[r] |->
                         [m \in DOMAIN @[r][c] |-> Reread(@[r][c][m], changed)]]]]

\* e.state = v, e.mode = v for the electrode number id, as the ElecWell reads
SetAttr(well, id, attr, v) ==
    IF ~well.made THEN well
    ELSE [well EXCEPT
             !.electrodes =
                 [r \in DOMAIN @ |->
                     [c \in DOMAIN @[r] |->
                         [m \in DOMAIN @[r][c] |->
                             IF @[r][c][m].id # id THEN @[r][c][m]
                             ELSE IF attr = "state" THEN [@[r][c][m] EXCEPT !.state = v]
                             ELSE [@[r][c][m] EXCEPT !.mode = v]]]]]

(* ---------------------------------------------------------------------- *)
(* ElectrodeMapper (electrode_mapper.py)                                   *)
(* ---------------------------------------------------------------------- *)
\* JSON numbers are the naturals; Null is JSON null and Python's None, which
\* is also what dict.get returns for a key the dict does not have
Null == -1

\* a JSON object with the keys an item of the list format may have; an item
\* that is no object (a number, say) has dict FALSE
Item(electrode, channel, pixel, x, y) ==
    [dict |-> TRUE, electrode |-> electrode, channel |-> channel,
     pixel |-> pixel, x |-> x, y |-> y]
NotADict == [dict |-> FALSE, electrode |-> Null, channel |-> Null,
             pixel |-> Null, x |-> Null, y |-> Null]

\* the dict {'electrode': .., 'pixel': .., 'x': .., 'y': ..} the loader makes
Entry(electrode, pixel, x, y) == Item(electrode, Null, pixel, x, y)
\* None, as a lookup result
NoEntry == NotADict

\* ElectrodeMapper(): an empty list and three empty dicts
ElectrodeMapper_init ==
    [mapping_data |-> << >>, electrode_to_data |-> << >>,
     pixel_to_data |-> << >>, coord_to_data |-> << >>]

\* d[k] = v on a dict
DictSet(d, k, v) == (k :> v) @@ d
\* d.get(k)
DictGet(d, k) == IF k \in DOMAIN d THEN d[k] ELSE NoEntry

\* seq[i] if i < len(seq) else None (i counts from 0)
ItemOrNone(seq, i) == IF i < Len(seq) THEN seq[i + 1] ELSE Null

\* coord.get('X') if coord.get('X') is not None else coord.get('x')
UpperOrLower(upper, lower) == IF upper # Null THEN upper ELSE lower

\* the list of dicts combined from the parallel arrays, one per coordinate
CombineParallel(channels, pixels, coordinates) ==
    [j \in 1..Len(coordinates) |->
        Entry(ItemOrNone(channels, j - 1), ItemOrNone(pixels, j - 1),
              UpperOrLower(coordinates[j].X, coordinates[j].x),
              UpperOrLower(coordinates[j].Y, coordinates[j].y))]

\* a variant: the item is skipped when a field is falsy: None or 0
skips_item_falsy(pixel, x, y) ==
    \/ pixel = Null \/ pixel = 0
    \/ x = Null \/ x = 0
    \/ y = Null \/ y = 0

\* pixel is None or x is None or y is None
SkipsItem(pixel, x, y) == pixel = Null \/ x = Null \/ y = Null

\* the loop over self.mapping_data from item i on: the three dicts and
\* whether item.get raised (the item is no dict)
RECURSIVE BuildLookupsFrom(_, _, _)
BuildLookupsFrom(items, i, m) ==
    IF i > Len(items) THEN [ok |-> TRUE, self |-> m]
    ELSE IF ~items[i].dict THEN [ok |-> FALSE, self |-> m]
    ELSE LET electrode == IF items[i].electrode # Null THEN items[i].electrode
                          ELSE items[i].channel
             pixel == items[i].pixel
             x == items[i].x
             y == items[i].y
             data_entry == Entry(electrode, pixel, x, y)
         IN  IF SkipsItem(pixel, x, y) THEN BuildLookupsFrom(items, i + 1, m)
             ELSE BuildLookupsFrom(items, i + 1,
                     [m EXCEPT
                         !.electrode_to_data =
                             IF electrode # Null THEN DictSet(@, electrode, data_entry) ELSE @,
                         !.pixel_to_data = DictSet(@, pixel, data_entry),
                         !.coord_to_data = DictSet(@, << x, y >>, data_entry)])

\* self.load_mapping(filepath) where the file holds the JSON document doc (or
\* does not exist): whether True was returned, and the mapper afterwards.
\* Every exception is caught and turns into False; what was assigned before
\* it stays assigned.
load_mapping(self, doc) ==
    IF doc.kind = "no_file" \/ doc.kind = "other" THEN [ok |-> FALSE, self |-> self]
    ELSE LET data == IF doc.kind = "parallel"
                     THEN CombineParallel(doc.channels, doc.pixels, doc.coordinates)
                     ELSE doc.items
         IN  BuildLookupsFrom(data, 1,
                 [mapping_data |-> data, electrode_to_data |-> << >>,
                  pixel_to_data |-> << >>, coord_to_data |-> << >>])

get_by_electrode(self, electrode) == DictGet(self.electrode_to_data, electrode)
get_by_pixel(self, pixel) == DictGet(self.pixel_to_data, pixel)
get_by_coords(self, x, y) == DictGet(self.coord_to_data, << x, y >>)

\* the side of a zoom grid, in cells
ZoomGridSide == 16

\* zoom_map: the zoom number of the grid at (grid_x, grid_y)
zoom_map ==
    (<< 0, 0 >> :> 1)  @@ (<< 1, 0 >> :> 3)  @@ (<< 2, 0 >> :> 7)  @@ (<< 3, 0 >> :> 5)  @@
    (<< 0, 1 >> :> 2)  @@ (<< 1, 1 >> :> 4)  @@ (<< 2, 1 >> :> 8)  @@ (<< 3, 1 >> :> 6)  @@
    (<< 0, 2 >> :> 10) @@ (<< 1, 2 >> :> 12) @@ (<< 2, 2 >> :> 16) @@ (<< 3, 2 >> :> 14) @@
    (<< 0, 3 >> :> 9)  @@ (<< 1, 3 >> :> 11) @@ (<< 2, 3 >> :> 15) @@ (<< 3, 3 >> :> 13)

\* a variant: the map has no entry for the grid at (3, 3), which then gets
\* the default of zoom_map.get
coords_to_zoom_grid_no_corner(x, y) ==
    LET key == << x \div ZoomGridSide, y \div ZoomGridSide >>
    IN  << IF key \in DOMAIN zoom_map /\ key # << 3, 3 >> THEN zoom_map[key] ELSE 1,
           x % ZoomGridSide, y % ZoomGridSide >>

\* coords_to_zoom_grid(x, y): (grid_number, local_x, local_y); // and % of
\* Python round towards minus infinity, as \div and % do, and
\* zoom_map.get(key, 1) gives 1 for a grid the map does not have
coords_to_zoom_grid(x, y) ==
    LET grid_x == x \div ZoomGridSide
        grid_y == y \div ZoomGridSide
        local_x == x % ZoomGridSide
        local_y == y % ZoomGridSide
        key == << grid_x, grid_y >>
        grid_number == IF key \in DOMAIN zoom_map THEN zoom_map[key] ELSE 1
    IN  << grid_number, local_x, local_y >>

(* ---------------------------------------------------------------------- *)
(* SelectionList and SelectionManager (selection_manager.py)               *)
(* ---------------------------------------------------------------------- *)
\* A SelectionList is an object without __eq__: `in` and == on lists of
\* them compare identities.  An object is known by a number; name and
\* colour take no part in any condition of the module and are left out.
\* None, where a SelectionList is expected
NoneList == 0

\* the members of a Python list
Members(seq) == {seq[i] : i \in DOMAIN seq}

\* list.remove(v): the first member equal to v is taken out
ListRemove(seq, v) ==
    LET i == CHOOSE i \in DOMAIN seq : seq[i] = v /\ \A j \in 1..(i - 1) : seq[j] # v
    IN  [k \in 1..(Len(seq) - 1) |-> IF k < i THEN seq[k] ELSE seq[k + 1]]

\* SelectionList(name, color).coordinates
SelectionList_init == << >>

\* add_coordinate(x, y) on the list of coordinates
add_coordinate(coordinates, x, y) ==
    IF << x, y >> \notin Members(coordinates)
    THEN Append(coordinates, << x, y >>)
    ELSE coordinates

\* remove_coordinate(x, y)
remove_coordinate(coordinates, x, y) ==
    IF << x, y >> \in Members(coordinates)
    THEN ListRemove(coordinates, << x, y >>)
    ELSE coordinates

\* has_coordinate(x, y)
has_coordinate(coordinates, x, y) == << x, y >> \in Members(coordinates)

\* a JSON object of 'selection_lists': whether it has the key 'name', and
\* its 'coordinates'
ListData(has_name, coordinates) == [has_name |-> has_name, coordinates |-> coordinates]

\* SelectionList.from_dict(data): data['name'] raises KeyError without the
\* key; the coordinates are taken over as the file has them
from_dict(data) ==
    IF ~data.has_name
    THEN [exc |-> "KeyError", coordinates |-> << >>]
    ELSE [exc |-> "none", coordinates |-> data.coordinates]

\* SelectionManager(): no lists, no current list
SelectionManager_init == [lists |-> << >>, current_list |-> NoneList]

\* the objects something still refers to: the others are reclaimed
Alive(self, heap) ==
    [l \in (Members(self.lists) \cup {self.current_list}) \ {NoneList} |-> heap[l]]

\* the identity a newly constructed object gets
NewIdentity(heap) == CHOOSE l \in 1..(Cardinality(DOMAIN heap) + 1) : l \notin DOMAIN heap

\* self.create_list(name, color): the manager and the objects afterwards
create_list(self, heap) ==
    LET new_list == NewIdentity(heap)
        after == [lists |-> Append(self.lists, new_list), current_list |-> new_list]
    IN  [self |-> after, heap |-> Alive(after, (new_list :> SelectionList_init) @@ heap)]

\* self.remove_list(selection_list)
remove_list(self, heap, selection_list) ==
    IF selection_list \notin Members(self.lists)
    THEN [self |-> self, heap |-> heap]
    ELSE LET lists == ListRemove(self.lists, selection_list)
             after == [lists |-> lists,
                       current_list |->
                           IF self.current_list = selection_list
                           THEN (IF lists # << >> THEN lists[1] ELSE NoneList)
                           ELSE self.current_list]
         IN  [self |-> after, heap |-> Alive(after, heap)]

\* the loop of load_from_file over data['selection_lists'] from item i on,
\* self.lists being lists: the lists appended until from_dict raised
RECURSIVE LoadListsFrom(_, _, _, _)
LoadListsFrom(items, i, lists, heap) ==
    IF i > Len(items) THEN [ok |-> TRUE, lists |-> lists, heap |-> heap]
    ELSE LET made == from_dict(items[i])
             new_list == NewIdentity(heap)
         IN  IF made.exc # "none" THEN [ok |-> FALSE, lists |-> lists, heap |-> heap]
             ELSE LoadListsFrom(items, i + 1, Append(lists, new_list),
                                (new_list :> made.coordinates) @@ heap)

\* self.load_from_file(filepath) where the file holds the JSON document doc
\* (or does not exist): whether True was returned, the manager and the
\* objects afterwards.  open and json.load raise before anything is
\* assigned; self.lists.clear() comes next, then data.get, which a document
\* that is no JSON object does not have; current_list is assigned after the
\* loop only.  Every exception is caught and turns into False.
load_from_file(self, heap, doc) ==
    IF doc.kind = "no_file" THEN [ok |-> FALSE, self |-> self, heap |-> heap]
    ELSE IF doc.kind = "no_object"
    THEN LET after == [self EXCEPT !.lists = << >>]
         IN  [ok |-> FALSE, self |-> after, heap |-> Alive(after, heap)]
    ELSE LET kept == Alive([self EXCEPT !.lists = << >>], heap)
             loaded == LoadListsFrom(doc.selection_lists, 1, << >>, kept)
             after == [lists |-> loaded.lists,
                       current_list |->
                           IF ~loaded.ok THEN self.current_list
                           ELSE IF loaded.lists # << >> THEN loaded.lists[1]
                           ELSE NoneList]
         IN  [ok |-> loaded.ok, self |-> after, heap |-> Alive(after, loaded.heap)]

(* ---------------------------------------------------------------------- *)
(* Inputs                                                                  *)
(* ---------------------------------------------------------------------- *)
CanonArgs == 0..MaxCanonArg
CoordArgs == 0..MaxCoordArg
PairClasses == {"tuple", "Coord"}

\* a call: the operation and its arguments (absent arguments are None)
Call(op, has2d, well, pair, hasCanon, canonical_idx) ==
    [op |-> op, has2d |-> has2d, well |-> well, pair |-> pair,
     hasCanon |-> hasCanon, canonical_idx |-> canonical_idx]

\* the pair of integers (x, y) of class cls
IntPair(cls, x, y) == [cls |-> cls, items |-> << Scalar(x), Scalar(y) >>]

(* ---------------------------------------------------------------------- *)
(* Initial state: the module has been imported                             *)
(* ---------------------------------------------------------------------- *)
Init ==
    /\ \A i \in 1..Len(ConversionEntries) :
          ToWellShapeAssert(ConversionEntries[i].start, ConversionEntries[i].end)
    /\ call = Call("import", FALSE, NoneWell, NonePair, FALSE, 0)
    /\ ret = Raised("none")
    /\ obj = NoObject
    /\ allocated = 0
    /\ wellA = NoWell
    /\ wellB = NoWell
    /\ table_writes = {}
    /\ mapper = ElectrodeMapper_init
    /\ manager = SelectionManager_init
    /\ objects = << >>

(* ---------------------------------------------------------------------- *)
(* Operations                                                              *)
(* ---------------------------------------------------------------------- *)
\* the caller makes one call on the freshly imported module: the functions
\* keep no state, so the outcome of a call does not depend on earlier calls
Ready == call.op = "import"

\* get_2d_index(c)
CallGet2dIndex ==
    /\ Ready
    /\ \E c \in CanonArgs :
          /\ call' = Call("get_2d_index", FALSE, NoneWell, NonePair, TRUE, c)
          /\ ret' = get_2d_index(c)
          /\ UNCHANGED << obj, rest >>

\* get_canonical_index((w, (x, y))), the pair a tuple or a Coord
CallGetCanonicalIndex ==
    /\ Ready
    /\ \E w \in WellNumber, x \in CoordArgs, y \in CoordArgs, cls \in PairClasses :
          /\ call' = Call("get_canonical_index", TRUE, w, IntPair(cls, x, y), FALSE, 0)
          /\ ret' = get_canonical_index(w, IntPair(cls, x, y))
          /\ UNCHANGED << obj, rest >>

\* get_canonical_index(get_2d_index(c))
CallCanonicalOfResolve ==
    /\ Ready
    /\ \E c \in CanonArgs :
          /\ call' = Call("canonical_of_resolve", FALSE, NoneWell, NonePair, TRUE, c)
          /\ ret' = LET r == get_2d_index(c)
                    IN  IF r.exc # "none" THEN r ELSE get_canonical_index(r.well, r.coord)
          /\ UNCHANGED << obj, rest >>

\* get_2d_index(get_canonical_index((w, (x, y))))
CallResolveOfCanonical ==
    /\ Ready
    /\ \E w \in WellNumber, x \in CoordArgs, y \in CoordArgs :
          /\ call' = Call("resolve_of_canonical", TRUE, w, IntPair("tuple", x, y), FALSE, 0)
          /\ ret' = LET r == get_canonical_index(w, IntPair("tuple", x, y))
                    IN  IF r.exc # "none" THEN r
                        ELSE IF r.num.dim = 0 THEN get_2d_index(r.num.data[1])
                        ELSE Raised("TypeError")
          /\ UNCHANGED << obj, rest >>

\* ElecMapIndex(canonical_idx=c)
NewFromCanonical ==
    /\ Ready
    /\ \E c \in CanonArgs :
          LET r == ElecMapIndex_init(FALSE, NoneWell, NonePair, TRUE, c)
          IN  /\ call' = Call("ElecMapIndex", FALSE, NoneWell, NonePair, TRUE, c)
              /\ ret' = r.out
              /\ obj' = r.new
              /\ UNCHANGED rest

\* ElecMapIndex(index2d=(w, (x, y)))
NewFromIndex2d ==
    /\ Ready
    /\ \E w \in WellNumber, x \in CoordArgs, y \in CoordArgs :
          LET r == ElecMapIndex_init(TRUE, w, IntPair("tuple", x, y), FALSE, 0)
          IN  /\ call' = Call("ElecMapIndex", TRUE, w, IntPair("tuple", x, y), FALSE, 0)
              /\ ret' = r.out
              /\ obj' = r.new
              /\ UNCHANGED rest

\* the 2-D indices tried together with canonical index c: the one
\* get_2d_index(c) names (when there is one) and one fixed cell
Index2dFor(c) ==
    {[well |-> 1, pair |-> IntPair("tuple", 1, 1)]} \cup
    (IF get_2d_index(c).exc = "none"
     THEN {[well |-> get_2d_index(c).well, pair |-> get_2d_index(c).coord]}
     ELSE {})

\* ElecMapIndex(index2d=(w, (x, y)), canonical_idx=c)
NewFromBoth ==
    /\ Ready
    /\ \E c \in CanonArgs :
          \E i \in Index2dFor(c) :
              LET r == ElecMapIndex_init(TRUE, i.well, i.pair, TRUE, c)
              IN  /\ call' = Call("ElecMapIndex", TRUE, i.well, i.pair, TRUE, c)
                  /\ ret' = r.out
                  /\ obj' = r.new
                  /\ UNCHANGED rest

\* ElecMapIndex()
NewFromNeither ==
    /\ Ready
    /\ LET r == ElecMapIndex_init(FALSE, NoneWell, NonePair, FALSE, 0)
       IN  /\ call' = Call("ElecMapIndex", FALSE, NoneWell, NonePair, FALSE, 0)
           /\ ret' = r.out
           /\ obj' = r.new
           /\ UNCHANGED rest

Next ==
    \/ CallGet2dIndex
    \/ CallGetCanonicalIndex
    \/ CallCanonicalOfResolve
    \/ CallResolveOfCanonical
    \/ NewFromCanonical
    \/ NewFromIndex2d
    \/ NewFromBoth
    \/ NewFromNeither

Spec == Init /\ [][Next]_vars

(* ---------------------------------------------------------------------- *)
(* Operations on electrode arrays                                          *)
(* ---------------------------------------------------------------------- *)
\* the electrode a caller assigns state and mode of: flat position of the
\* cell (the key of __getitem__) and place in the cell's list
SlotSample == {[key |-> 255, mux |-> 3]}
\* one well of each of the four orientations
WellSample == {1, 2, 5, 6}

\* the module-level tables
Tables == {"_CONVERSION_DICT", "_CONVERSION_DICT_INV", "WELL_PIXEL"}

\* a variant: change_well stores the well's new layout back into the table
table_writes_change_well(op) ==
    IF op = "change_well" THEN {"_CONVERSION_DICT"} ELSE {}

\* the tables to which, or to a cell of which, the body of operation op (and
\* of what it calls) assigns: the bodies only read the tables, by subscript,
\* .get and .flat, and what they return is computed anew (np.where, + 1)
TableWrites(op) == {t \in Tables : FALSE}

\* the electrode well[s.key][s.mux]
ElectrodeAt(well, s) == ElecWell_getitem(well, s.key)[s.mux + 1]

\* a = get_well(w), for w in W
GetWellA(W) ==
    /\ ~wellA.made
    /\ \E w \in W :
          \E r \in {get_well(allocated, w)} :
              /\ call' = Call("get_well", FALSE, w, NonePair, FALSE, 0)
              /\ ret' = r.out
              /\ allocated' = r.allocated
              /\ wellA' = r.well
              /\ table_writes' = table_writes \cup TableWrites("get_well")
              /\ UNCHANGED << obj, wellB, mapper, manager, objects >>

\* b = get_well(w), for w in W, once a exists
GetWellB(W) ==
    /\ wellA.made
    /\ ~wellB.made
    /\ \E w \in W :
          \E r \in {get_well(allocated, w)} :
              /\ call' = Call("get_well", FALSE, w, NonePair, FALSE, 0)
              /\ ret' = r.out
              /\ allocated' = r.allocated
              /\ wellB' = r.well
              /\ table_writes' = table_writes \cup TableWrites("get_well")
              /\ UNCHANGED << obj, wellA, mapper, manager, objects >>

\* a.change_well(w), for w in W
ChangeWellA(W) ==
    /\ wellA.made
    /\ \E w \in W :
          \E changed \in {change_well(wellA, w)} :
              /\ call' = Call("change_well", FALSE, w, NonePair, FALSE, 0)
              /\ ret' = Raised("none")
              /\ wellA' = changed
              /\ wellB' = SeenAfter(wellB, changed)
              /\ table_writes' = table_writes \cup TableWrites("change_well")
              /\ UNCHANGED << obj, allocated, mapper, manager, objects >>

\* a[key][mux].state = not a[key][mux].state
ToggleStateA ==
    /\ wellA.made
    /\ \E s \in SlotSample :
          \E e \in {ElectrodeAt(wellA, s)} :
              /\ call' = Call("setattr", FALSE, NoneWell, NonePair, FALSE, 0)
              /\ ret' = Raised("none")
              /\ wellA' = SetAttr(wellA, e.id, "state", ~e.state)
              /\ wellB' = SetAttr(wellB, e.id, "state", ~e.state)
              /\ table_writes' = table_writes \cup TableWrites("setattr")
              /\ UNCHANGED << obj, allocated, mapper, manager, objects >>

\* a[key][mux].mode = m
SetModeA ==
    /\ wellA.made
    /\ \E s \in SlotSample, m \in OpMode :
          \E e \in {ElectrodeAt(wellA, s)} :
              /\ call' = Call("setattr", FALSE, NoneWell, NonePair, FALSE, 0)
              /\ ret' = Raised("none")
              /\ wellA' = SetAttr(wellA, e.id, "mode", m)
              /\ wellB' = SetAttr(wellB, e.id, "mode", m)
              /\ table_writes' = table_writes \cup TableWrites("setattr")
              /\ UNCHANGED << obj, allocated, mapper, manager, objects >>

\* get_canonical_index((e.index.well_number, e.index.electrode_coordinate))
\* for the electrode e = a[key][mux]
CanonicalOfAddress ==
    /\ wellA.made
    /\ \E s \in SlotSample :
          \E i \in {ElectrodeAt(wellA, s).index} :
              /\ call' = Call("get_canonical_index", TRUE, i.well, i.coord, FALSE, 0)
              /\ ret' = get_canonical_index(i.well, i.coord)
              /\ table_writes' = table_writes \cup TableWrites("get_canonical_index")
              /\ UNCHANGED << obj, allocated, wellA, wellB, mapper, manager, objects >>

\* one array, any well
NextWell ==
    \/ GetWellA(WellNumber)
    \/ ChangeWellA(WellNumber)
    \/ ToggleStateA
    \/ SetModeA
    \/ CanonicalOfAddress

SpecWell == Init /\ [][NextWell]_vars

\* two arrays, the wells of the sample
NextTwoWells ==
    \/ GetWellA(WellSample)
    \/ GetWellB(WellSample)
    \/ ChangeWellA(WellSample)
    \/ ToggleStateA
    \/ SetModeA

SpecTwoWells == Init /\ [][NextTwoWells]_vars

(* ---------------------------------------------------------------------- *)
(* _dict_inversion on an arbitrary forward table                           *)
(* ---------------------------------------------------------------------- *)
\* small forward tables: two wells, each an array of one row and two
\* columns, every cell any of the four indices two such wells would share
\* out; most of them hold an index twice and miss another
SmallWells == {1, 2}
SmallColumns == {0, 1}
SmallIndices == 1..(Cardinality(SmallWells) * Cardinality(SmallColumns))
SmallTables ==
    {[order |-> << 1, 2 >>, at |-> f] :
        f \in [SmallWells -> [{0} -> [SmallColumns -> SmallIndices]]]}

\* the returned dictionary
ReturnedDict(d) == [exc |-> "none", kind |-> "dict", inv |-> d]

\* a forward table is at hand
InitInversion ==
    /\ \E t \in SmallTables : call = [op |-> "table", dict_ |-> t]
    /\ ret = Raised("none")
    /\ obj = NoObject
    /\ allocated = 0
    /\ wellA = NoWell
    /\ wellB = NoWell
    /\ table_writes = {}
    /\ mapper = ElectrodeMapper_init
    /\ manager = SelectionManager_init
    /\ objects = << >>

\* _dict_inversion(dict_): the function has no raise and no assert
CallDictInversion ==
    /\ call.op = "table"
    /\ call' = [op |-> "_dict_inversion", dict_ |-> call.dict_]
    /\ ret' = ReturnedDict(_dict_inversion(call.dict_))
    /\ UNCHANGED << obj, rest >>

NextInversion == CallDictInversion

SpecInversion == InitInversion /\ [][NextInversion]_vars

(* ---------------------------------------------------------------------- *)
(* Loading a mapping file                                                  *)
(* ---------------------------------------------------------------------- *)
\* the most items a document of the sample has
MaxItems == 2

\* the sequences of at most n members of S
SeqsUpTo(S, n) == UNION {[1..k -> S] : k \in 0..n}

\* items of the list format: every field null or a number, 0 among them,
\* and an item that is no object
ListItemSample ==
    {Item(e, ch, p, x, y) :
        e \in {Null, 0}, ch \in {Null, 1}, p \in {Null, 0, 1},
        x \in {Null, 0}, y \in {Null, 0}}
    \cup {NotADict}

\* coordinates of the parallel-array format, with upper-case keys,
\* lower-case keys, both, and a missing one
CoordinateSample ==
    {[X |-> 0,    x |-> Null, Y |-> 0,    y |-> Null],
     [X |-> Null, x |-> 0,    Y |-> Null, y |-> 0],
     [X |-> 1,    x |-> 0,    Y |-> 0,    y |-> 1],
     [X |-> Null, x |-> 1,    Y |-> 0,    y |-> Null],
     [X |-> 0,    x |-> Null, Y |-> Null, y |-> Null],
     [X |-> 1,    x |-> Null, Y |-> 1,    y |-> Null]}

\* the JSON documents of the two formats
ListDocs == {[kind |-> "list", items |-> i] : i \in SeqsUpTo(ListItemSample, MaxItems)}
ParallelDocs ==
    {[kind |-> "parallel", channels |-> c, pixels |-> p, coordinates |-> xy] :
        c \in SeqsUpTo({Null, 0}, MaxItems), p \in SeqsUpTo({0, 1}, MaxItems),
        xy \in SeqsUpTo(CoordinateSample, MaxItems)}
\* a file that does not exist, and a document of neither format
OtherDocs == {[kind |-> "no_file"], [kind |-> "other"]}

\* what load_mapping returned
ReturnedBool(b) == [exc |-> "none", kind |-> "bool", ok |-> b]

\* mapper.load_mapping(file) for the document doc
LoadMapping(doc) ==
    LET r == load_mapping(mapper, doc)
    IN  /\ call' = [op |-> "load_mapping", doc |-> doc]
        /\ ret' = ReturnedBool(r.ok)
        /\ mapper' = r.self
        /\ UNCHANGED << obj, allocated, wellA, wellB, table_writes, manager, objects >>

LoadList ==
    /\ Ready
    /\ \E doc \in ListDocs : LoadMapping(doc)

LoadParallel ==
    /\ Ready
    /\ \E doc \in ParallelDocs : LoadMapping(doc)

LoadOther ==
    /\ Ready
    /\ \E doc \in OtherDocs : LoadMapping(doc)

NextMapper ==
    \/ LoadList
    \/ LoadParallel
    \/ LoadOther

SpecMapper == Init /\ [][NextMapper]_vars

(* ---------------------------------------------------------------------- *)
(* Operations: coords_to_zoom_grid                                         *)
(* ---------------------------------------------------------------------- *)
\* the coordinates tried: the 64 x 64 grid, one step below it and one or
\* more steps above it
MaxZoomArg == 64
ZoomArgs == (0 - 1)..MaxZoomArg

\* what coords_to_zoom_grid returned
ReturnedZoom(t) == [exc |-> "none", kind |-> "zoom", zoom |-> t]

\* mapper.coords_to_zoom_grid(x, y); the method reads no attribute of the
\* mapper, so one call on the fresh mapper shows every outcome
CallCoordsToZoomGrid ==
    /\ Ready
    /\ \E x \in ZoomArgs, y \in ZoomArgs :
          /\ call' = [op |-> "coords_to_zoom_grid", x |-> x, y |-> y]
          /\ ret' = ReturnedZoom(coords_to_zoom_grid(x, y))
          /\ UNCHANGED << obj, rest >>

NextZoom == CallCoordsToZoomGrid

SpecZoom == Init /\ [][NextZoom]_vars

(* ---------------------------------------------------------------------- *)
(* Operations on selection lists                                           *)
(* ---------------------------------------------------------------------- *)
\* the coordinates selected, and the sizes of what a file holds
SelectionCoords == {<< 0, 0 >>, << 1, 0 >>}
MaxFileCoords == 2
MaxFileLists == 2
\* create_list is called while the manager has fewer lists than this
MaxLists == 2

\* the members of 'selection_lists': with a name and coordinates, the same
\* coordinate twice among them, and one without a name
FileListSample ==
    {ListData(TRUE, c) : c \in SeqsUpTo(SelectionCoords, MaxFileCoords)}
    \cup {ListData(FALSE, << >>)}

\* the files: a JSON object with 'selection_lists', a JSON document that is
\* no object (a list), and a file that does not exist
SelectionDocs ==
    {[kind |-> "object", selection_lists |-> l] : l \in SeqsUpTo(FileListSample, MaxFileLists)}
    \cup {[kind |-> "no_object"], [kind |-> "no_file"]}

\* manager.create_list(name, color)
CreateList ==
    /\ Len(manager.lists) < MaxLists
    /\ \E r \in {create_list(manager, objects)} :
          /\ call' = [op |-> "create_list"]
          /\ ret' = ReturnedObject
          /\ manager' = r.self
          /\ objects' = r.heap
          /\ UNCHANGED << obj, allocated, wellA, wellB, table_writes, mapper >>

\* manager.remove_list(l) for a SelectionList l the caller holds
RemoveList ==
    \E l \in DOMAIN objects :
        \E r \in {remove_list(manager, objects, l)} :
            /\ call' = [op |-> "remove_list", list |-> l]
            /\ ret' = Raised("none")
            /\ manager' = r.self
            /\ objects' = r.heap
            /\ UNCHANGED << obj, allocated, wellA, wellB, table_writes, mapper >>

\* manager.load_from_file(file) for the document doc
LoadFromFile ==
    \E doc \in SelectionDocs :
        \E r \in {load_from_file(manager, objects, doc)} :
            /\ call' = [op |-> "load_from_file", doc |-> doc]
            /\ ret' = ReturnedBool(r.ok)
            /\ manager' = r.self
            /\ objects' = r.heap
            /\ UNCHANGED << obj, allocated, wellA, wellB, table_writes, mapper >>

\* l.add_coordinate(x, y)
AddCoordinate ==
    \E l \in DOMAIN objects, c \in SelectionCoords :
        /\ call' = [op |-> "add_coordinate", list |-> l, x |-> c[1], y |-> c[2]]
        /\ ret' = Raised("none")
        /\ objects' = [objects EXCEPT ![l] = add_coordinate(@, c[1], c[2])]
        /\ UNCHANGED << obj, allocated, wellA, wellB, table_writes, mapper, manager >>

\* l.remove_coordinate(x, y)
RemoveCoordinate ==
    \E l \in DOMAIN objects, c \in SelectionCoords :
        /\ call' = [op |-> "remove_coordinate", list |-> l, x |-> c[1], y |-> c[2]]
        /\ ret' = Raised("none")
        /\ objects' = [objects EXCEPT ![l] = remove_coordinate(@, c[1], c[2])]
        /\ UNCHANGED << obj, allocated, wellA, wellB, table_writes, mapper, manager >>

NextSelection ==
    \/ CreateList
    \/ RemoveList
    \/ LoadFromFile
    \/ AddCoordinate
    \/ RemoveCoordinate

SpecSelection == Init /\ [][NextSelection]_vars

(* ---------------------------------------------------------------------- *)
(* Helpers of the properties                                               *)
(* ---------------------------------------------------------------------- *)
\* the canonical indices well w's layout array holds
BlockOf == [w \in WellNumber |-> Values(_CONVERSION_DICT.at[w])]
\* the least of them
BlockStart == [w \in WellNumber |-> CHOOSE s \in BlockOf[w] : \A v \in BlockOf[w] : s <= v]
\* the pixel indices well w's pixel list holds
WellPixelSet == [w \in WellNumber |-> {WELL_PIXEL[w][j] : j \in 1..Len(WELL_PIXEL[w])}]
\* the pixel indices _index_to_pixel derives for the single canonical index c
PixelsDerived(c) ==
    {_index_to_pixel(<< c >>)[j] : j \in 1..Len(_index_to_pixel(<< c >>))}
\* the valid canonical indices and coordinates
Canonicals == 1..(NUM_PIXEL * Cardinality(WellNumber))
Coordinates == 1.._WELL_SIZE.x
\* the integers of the pair the call was given
ArgX == call.pair.items[1].data[1]
ArgY == call.pair.items[2].data[1]

(* ---------------------------------------------------------------------- *)
(* Properties                                                              *)
(* ---------------------------------------------------------------------- *)

\* C1: round trip from the canonical index: for every canonical index c in
\* 1..4096, get_canonical_index(get_2d_index(c)) returns c.
C1_RoundTripFromCanonical ==
    (call.op = "canonical_of_resolve" /\ call.canonical_idx \in Canonicals)
        => (ret.exc = "none" /\ ret.kind = "index"
            /\ ret.num.data = << call.canonical_idx >>)

\* C2: round trip from the coordinate: for every well w and every x, y in
\* 1..16, get_2d_index(get_canonical_index((w, (x, y)))) returns (w, (x, y)).
C2_RoundTripFromCoordinate ==
    (call.op = "resolve_of_canonical" /\ ArgX \in Coordinates /\ ArgY \in Coordinates)
        => (ret.exc = "none" /\ ret.kind = "index2d"
            /\ ret.well = call.well
            /\ ret.coord.items[1].data = << ArgX >>
            /\ ret.coord.items[2].data = << ArgY >>)

\* C3: partition of the canonical domain: every well's layout array has 256
\* cells holding the 256 values of one block of consecutive integers, each
\* value once; the 16 blocks are pairwise disjoint, their union is 1..4096,
\* well 5 owns 1..256 and well 7 owns 257..512.  Stated on the index c the
\* caller looks up: c in 1..4096 is found, in the block of the well returned
\* and in no other well's block, and that block is 256 consecutive integers
\* of 1..4096 filling the well's 256 cells; an index outside 1..4096 is in no
\* block.
C3_Partition ==
    (call.op = "get_2d_index") =>
        /\ (call.canonical_idx \in 1..4096) <=> (ret.exc = "none")
        /\ \A w \in WellNumber :
              (call.canonical_idx \in BlockOf[w]) <=> (ret.exc = "none" /\ w = ret.well)
        /\ (ret.exc = "none") =>
              /\ NRows(_CONVERSION_DICT.at[ret.well]) * NCols(_CONVERSION_DICT.at[ret.well])
                    = NUM_PIXEL
              /\ Cardinality(BlockOf[ret.well]) = NUM_PIXEL
              /\ BlockOf[ret.well]
                    = BlockStart[ret.well]..(BlockStart[ret.well] + NUM_PIXEL - 1)
              /\ BlockOf[ret.well] \subseteq 1..4096
              /\ (ret.well = 5) => (BlockOf[ret.well] = 1..256)
              /\ (ret.well = 7) => (BlockOf[ret.well] = 257..512)

\* a lookup that ends in the last cell of well 7's block
C3_Witness ==
    /\ call.op = "get_2d_index" /\ call.canonical_idx = 512
    /\ ret.exc = "none" /\ ret.well = 7
    /\ BlockOf[ret.well] = 257..512

\* C4: get_2d_index of a canonical index outside 1..4096 (0 and 4097 among
\* them) fails with LookupError, with no other error and no default value.
C4_LookupErrorOutsideDomain ==
    (call.op = "get_2d_index" /\ call.canonical_idx \notin Canonicals)
        => ret.exc = "LookupError"

\* C5: get_canonical_index with x or y outside 1..16 (x = 0 and x = 17 among
\* them) fails with OutOfRangeError and returns no canonical index.
C5_OutOfRangeError ==
    (call.op = "get_canonical_index"
     /\ (ArgX \notin Coordinates \/ ArgY \notin Coordinates))
        => ret.exc = "OutOfRangeError"

C7_ConflictingConstruction ==
    (call.op = "ElecMapIndex" /\ call.hasCanon /\ call.has2d)
        => (ret.exc = "RuntimeError" /\ ~obj.made)

\* both arguments given, naming the same cell
C7_Witness ==
    /\ call.op = "ElecMapIndex" /\ call.hasCanon /\ call.has2d
    /\ get_2d_index(call.canonical_idx).exc = "none"
    /\ call.well = get_2d_index(call.canonical_idx).well
    /\ call.pair = get_2d_index(call.canonical_idx).coord
    /\ ret.exc = "RuntimeError"

\* C8: for every canonical index c in 1..4096 the pixel indices derived for c
\* are 4(c-1), 4(c-1)+1, 4(c-1)+2, 4(c-1)+3, and each of them is in the pixel
\* list of the well owning c, at exactly one position, and in no other well's
\* list.  Stated on the index c the caller looks up and the well returned.
C8_PixelDerivation ==
    (call.op = "get_2d_index" /\ call.canonical_idx \in Canonicals) =>
        /\ ret.exc = "none"
        /\ PixelsDerived(call.canonical_idx)
              = {4 * (call.canonical_idx - 1) + k : k \in 0..3}
        /\ \A p \in PixelsDerived(call.canonical_idx) :
              /\ \A w \in WellNumber : (p \in WellPixelSet[w]) <=> (w = ret.well)
              /\ Cardinality({j \in 1..Len(WELL_PIXEL[ret.well]) :
                                 WELL_PIXEL[ret.well][j] = p}) = 1

\* the last canonical index resolved to its well, whose list holds its pixels
C8_Witness ==
    /\ call.op = "get_2d_index" /\ call.canonical_idx = 4096
    /\ ret.exc = "none"
    /\ PixelsDerived(call.canonical_idx) \subseteq WellPixelSet[ret.well]

\* C9 as stated: every pixel index of every well's pixel list is in 0..4095.
\* Stated on the pixel list of the well a lookup returns (every well is
\* returned by some lookup).
C9_Original ==
    (call.op = "get_2d_index" /\ ret.exc = "none") =>
        WellPixelSet[ret.well] \subseteq 0..4095

\* C9 amended: every pixel index of every well's pixel list is an integer in
\* 0..16383 (4 * 4096 - 1).
C9_PixelRange ==
    (call.op = "get_2d_index" /\ ret.exc = "none") =>
        WellPixelSet[ret.well] \subseteq 0..(4 * 4096 - 1)

\* a canonical index above 1024 resolved to its well, whose pixels exceed 4095
C9_Witness ==
    /\ call.op = "get_2d_index" /\ call.canonical_idx = 1025
    /\ ret.exc = "none"
    /\ 4 * (call.canonical_idx - 1) \in WellPixelSet[ret.well]
    /\ 4 * (call.canonical_idx - 1) > 4095

\* C10: for every well, with block_start the first canonical index of its
\* block, the pixel list has 1024 entries, its value set is
\* 4*(block_start-1) .. 4*block_start+1019, and its order is the transformed
\* layout read row by row, each canonical index giving its 4 pixel indices in
\* a row, channel k = 0, 1, 2, 3.  Stated on the well a lookup returns.
C10_WellPixelOrder ==
    (call.op = "get_2d_index" /\ ret.exc = "none") =>
        /\ Len(WELL_PIXEL[ret.well]) = 1024
        /\ WellPixelSet[ret.well]
              = (4 * (BlockStart[ret.well] - 1))..(4 * BlockStart[ret.well] + 1019)
        /\ \A r \in 0..(_WELL_SIZE.x - 1) : \A c \in 0..(_WELL_SIZE.y - 1) : \A k \in 0..3 :
              WELL_PIXEL[ret.well][4 * (_WELL_SIZE.y * r + c) + k + 1]
                  = 4 * (_CONVERSION_DICT.at[ret.well][r][c] - 1) + k

\* the first index of well 6's block resolved; the well's list starts with
\* the pixels of its top left cell, which is not the block's first index
C10_Witness ==
    /\ call.op = "get_2d_index" /\ call.canonical_idx = BlockStart[6]
    /\ ret.exc = "none" /\ ret.well = 6
    /\ WELL_PIXEL[ret.well][1] = 4 * (_CONVERSION_DICT.at[ret.well][0][0] - 1)
    /\ _CONVERSION_DICT.at[ret.well][0][0] # BlockStart[ret.well]

(* ---------------------------------------------------------------------- *)
(* Properties of the electrode arrays                                      *)
(* ---------------------------------------------------------------------- *)
\* the positions (row, column, place in the list) of an ElecWell's array
Positions(well) ==
    IF ~well.made THEN {}
    ELSE (DOMAIN well.electrodes) \X (DOMAIN well.electrodes[0]) \X (1..ElectrodesPerCell)
\* the electrode at position p
At(well, p) == well.electrodes[p[1]][p[2]][p[3]]

\* C11: reassignment consistency: after a.change_well(newWell) on an array
\* materialized for any well, and after any sequence of such calls, every
\* one of the 1024 addresses has well newWell, and
\* get_canonical_index((newWell, address.coordinate)) returns the address's
\* canonical index.
C11_ReassignmentConsistency ==
    (call.op = "change_well") =>
        \A p \in Positions(wellA) :
            LET i == At(wellA, p).index
                back == get_canonical_index(call.well, i.coord)
            IN  /\ i.well = call.well
                /\ back.exc = "none"
                /\ back.kind = "index"
                /\ back.num.data = i._canonical_idx.data

\* C12: reassignment frame: a step a.change_well(newWell) keeps the same
\* electrode objects at the same positions of the array and leaves the
\* multiplexer channel, the state and the mode of every one of them as they
\* were, states and modes assigned before the call included.
C12_ReassignmentFrame ==
    [][(call'.op = "change_well") =>
          /\ wellA'.made
          /\ Positions(wellA') = Positions(wellA)
          /\ \A p \in Positions(wellA) :
                /\ At(wellA', p).id = At(wellA, p).id
                /\ At(wellA', p).multiplexer = At(wellA, p).multiplexer
                /\ At(wellA', p).state = At(wellA, p).state
                /\ At(wellA', p).mode = At(wellA, p).mode]_vars

\* a change_well to well 7 has just been made on an array one of whose
\* electrodes had been switched on and set to REC before
C12_Witness ==
    /\ call.op = "change_well"
    /\ wellA.well_number = 7
    /\ \E s \in SlotSample :
          /\ ElectrodeAt(wellA, s).state
          /\ ElectrodeAt(wellA, s).mode = "REC"
          /\ ElectrodeAt(wellA, s).index.well = 7

\* C13: get_well(w), for every well w, materializes exactly 1024 electrodes:
\* for each of the 256 canonical indices of w's block exactly four, with the
\* multiplexer channels 0, 1, 2, 3, each with state False, mode VSTIM and an
\* index whose well is w.
C13_Materialization ==
    (call.op = "get_well") =>
        /\ ret.exc = "none"
        /\ wellA.made
        /\ wellA.well_number = call.well
        /\ Cardinality(Positions(wellA)) = 1024
        /\ Cardinality(Ids(wellA)) = 1024
        /\ \A p \in Positions(wellA) :
              /\ At(wellA, p).state = FALSE
              /\ At(wellA, p).mode = "VSTIM"
              /\ At(wellA, p).index.well = call.well
              /\ At(wellA, p).index._canonical_idx.data[1] \in BlockOf[call.well]
        /\ \A x \in BlockOf[call.well] :
              LET of == {p \in Positions(wellA) :
                            At(wellA, p).index._canonical_idx.data = << x >>}
              IN  /\ Cardinality(of) = 4
                  /\ {At(wellA, p).multiplexer : p \in of} = 0..3

\* get_well(12) has just returned its array
C13_Witness ==
    /\ call.op = "get_well"
    /\ call.well = 12
    /\ wellA.made
    /\ ~wellB.made
    /\ ElecWell_len(wellA) = NUM_PIXEL

\* C14: materialization is deterministic and unshared: two arrays that
\* get_well returned share no electrode; when they are of the same well
\* they hold the same (coordinate, canonical index, channel) position by
\* position; and whatever states and modes are assigned and whichever
\* change_well is called on the first, the second reads as get_well
\* returned it, with the default state and mode.
C14_DeterministicUnshared ==
    (wellA.made /\ wellB.made) =>
        /\ Ids(wellA) \cap Ids(wellB) = {}
        /\ (wellA.well_number = wellB.well_number) =>
              /\ Positions(wellA) = Positions(wellB)
              /\ \A p \in Positions(wellA) :
                    /\ At(wellA, p).index.coord = At(wellB, p).index.coord
                    /\ At(wellA, p).index._canonical_idx = At(wellB, p).index._canonical_idx
                    /\ At(wellA, p).multiplexer = At(wellB, p).multiplexer
        /\ \A p \in Positions(wellB) :
              /\ At(wellB, p).state = FALSE
              /\ At(wellB, p).mode = "VSTIM"
              /\ At(wellB, p).index.well = wellB.well_number
              /\ At(wellB, p).index._canonical_idx.data =
                    << _CONVERSION_DICT.at[wellB.well_number][p[1]][p[2]] >>

\* both arrays are of well 5 and an electrode of the first has been switched
\* on and set to ISTIM since
C14_Witness ==
    /\ wellA.made
    /\ wellB.made
    /\ wellA.well_number = 5
    /\ wellB.well_number = 5
    /\ \E s \in SlotSample :
          /\ ElectrodeAt(wellA, s).state
          /\ ElectrodeAt(wellA, s).mode = "ISTIM"
          /\ ~ElectrodeAt(wellB, s).state

(* ---------------------------------------------------------------------- *)
(* Properties of the table inversion                                       *)
(* ---------------------------------------------------------------------- *)
\* the cells (well, row, column) of the forward table d that hold index x
CellsHolding(d, x) ==
    {<< k, r, c >> \in (DOMAIN d.at) \X {0} \X SmallColumns : d.at[k][r][c] = x}
\* some index is held by two cells of d, or an index is held by none
Corrupted(d) == \E x \in SmallIndices : Cardinality(CellsHolding(d, x)) # 1

\* C15: building the inverse table fails fast on a corrupted forward table:
\* when an index occurs in two cells of the forward table (of one well or of
\* two), or an index of the range is missing, the build raises instead of
\* returning an inverse table.
C15_FailFast ==
    (call.op = "_dict_inversion" /\ Corrupted(call.dict_)) => ret.exc # "none"

(* ---------------------------------------------------------------------- *)
(* Properties of the lookup's axes, of construction and of the transforms  *)
(* ---------------------------------------------------------------------- *)
\* C16: axis convention of the inverse lookup: for every well w and every
\* position (row r, column c) of w's layout array, get_2d_index of the
\* index held there returns (w, (x, y)) with x = c + 1 and y = r + 1.
C16_AxisConvention ==
    (call.op = "get_2d_index") =>
        \A w \in WellNumber :
            (call.canonical_idx \in BlockOf[w]) =>
                \A r \in DOMAIN _CONVERSION_DICT.at[w], c \in DOMAIN _CONVERSION_DICT.at[w][0] :
                    (_CONVERSION_DICT.at[w][r][c] = call.canonical_idx) =>
                        /\ ret.exc = "none"
                        /\ ret.well = w
                        /\ ret.coord.items[1].data = << c + 1 >>
                        /\ ret.coord.items[2].data = << r + 1 >>

\* C17: every ElecMapIndex whose construction succeeds has both its
\* canonical index and its (well, coordinate) set, whichever arguments were
\* supplied, neither included.
C17_BothFieldsDefined ==
    (call.op = "ElecMapIndex" /\ ret.exc = "none") =>
        /\ obj.made
        /\ obj.attrs = {"_canonical_idx", "_index2d"}

\* the row-major array of well w's range, before its transform
RowMajor == [w \in WellNumber |-> _to_well_shape(EntryOf(w).start, EntryOf(w).end)]
\* the four transforms as the cell-by-cell rules R[r][c] = ...
RuleTopLeftToBottomRight(A) ==
    [r \in DOMAIN A |-> [c \in DOMAIN A[r] |-> A[c][r]]]
RuleTopRightToBottomLeft(A) ==
    [r \in DOMAIN A |-> [c \in DOMAIN A[r] |-> A[15 - c][r]]]
RuleBottomLeftToTopRight(A) ==
    [r \in DOMAIN A |-> [c \in DOMAIN A[r] |-> A[c][15 - r]]]
RuleBottomRightToTopLeft(A) ==
    [r \in DOMAIN A |-> [c \in DOMAIN A[r] |-> A[15 - c][15 - r]]]
\* the four rules applied to A
Rules(A) ==
    << RuleTopLeftToBottomRight(A), RuleTopRightToBottomLeft(A),
       RuleBottomLeftToTopRight(A), RuleBottomRightToTopLeft(A) >>
\* for well w: each transform function computes its rule on the well's
\* row-major array, each result holds every cell of the array once, the four
\* results differ from one another, and the well's layout is one of them
TransformsAsStated ==
    [w \in WellNumber |->
        LET A == RowMajor[w]
            R == Rules(A)
        IN  /\ _top_left_to_bottom_right_column(A) = R[1]
            /\ _top_right_to_bottom_left_column(A) = R[2]
            /\ _bottom_left_to_top_right_column(A) = R[3]
            /\ _bottom_right_to_top_left_column(A) = R[4]
            /\ \A i \in 1..4 :
                  /\ Values(R[i]) = Values(A)
                  /\ Cardinality(Values(R[i])) = NRows(A) * NCols(A)
                  /\ NRows(R[i]) = NRows(A)
                  /\ NCols(R[i]) = NCols(A)
            /\ \A i, j \in 1..4 : (i # j) => (R[i] # R[j])
            /\ Cardinality({i \in 1..4 : _CONVERSION_DICT.at[w] = R[i]}) = 1]

\* C18: the four transforms of a row-major 16x16 array A are
\* R[r][c] = A[c][r] (top left to bottom right), A[15-c][r] (top right to
\* bottom left), A[c][15-r] (bottom left to top right) and A[15-c][15-r]
\* (bottom right to top left); each is a permutation of A's cells, the four
\* differ pairwise, and the layout of the well an index resolves to is
\* exactly one of them.
C18_Transforms ==
    (call.op = "get_2d_index" /\ ret.exc = "none") => TransformsAsStated[ret.well]

\* an index of well 2, whose layout is the bottom-left-to-top-right
\* transform of its range, has been resolved
C18_Witness ==
    /\ call.op = "get_2d_index"
    /\ ret.exc = "none"
    /\ ret.well = 2
    /\ _CONVERSION_DICT.at[2] = RuleBottomLeftToTopRight(RowMajor[2])
    /\ _CONVERSION_DICT.at[2][15][0] = call.canonical_idx

InputItems(doc) ==
    IF doc.kind = "list"
    THEN {[electrode |-> doc.items[j].electrode, pixel |-> doc.items[j].pixel,
           x |-> doc.items[j].x, y |-> doc.items[j].y] : j \in 1..Len(doc.items)}
    ELSE IF doc.kind = "parallel"
    THEN {[electrode |-> IF j <= Len(doc.channels) THEN doc.channels[j] ELSE Null,
           pixel |-> IF j <= Len(doc.pixels) THEN doc.pixels[j] ELSE Null,
           x |-> IF doc.coordinates[j].X = Null THEN doc.coordinates[j].x
                 ELSE doc.coordinates[j].X,
           y |-> IF doc.coordinates[j].Y = Null THEN doc.coordinates[j].y
                 ELSE doc.coordinates[j].Y] : j \in 1..Len(doc.coordinates)}
    ELSE {}

\* C20: after a successful load_mapping, for every input item whose pixel,
\* x and y are all non-null, get_by_coords(x, y) returns an entry with
\* those coordinates, get_by_pixel(pixel) an entry with that pixel, and,
\* when the item's electrode is non-null, get_by_electrode(electrode) an
\* entry with that electrode; 0 counts as a value, in both formats.
C20_Retrievable ==
    (call.op = "load_mapping" /\ ret.ok) =>
        \A i \in InputItems(call.doc) :
            (i.pixel # Null /\ i.x # Null /\ i.y # Null) =>
                /\ get_by_coords(mapper, i.x, i.y) # NoEntry
                /\ get_by_coords(mapper, i.x, i.y).x = i.x
                /\ get_by_coords(mapper, i.x, i.y).y = i.y
                /\ get_by_pixel(mapper, i.pixel) # NoEntry
                /\ get_by_pixel(mapper, i.pixel).pixel = i.pixel
                /\ (i.electrode # Null) =>
                      /\ get_by_electrode(mapper, i.electrode) # NoEntry
                      /\ get_by_electrode(mapper, i.electrode).electrode = i.electrode

\* a parallel-array document whose first item is electrode 0, pixel 0 at
\* (0, 0) was loaded and the item is found under each of its three keys
C20_Witness ==
    /\ call.op = "load_mapping"
    /\ ret.ok
    /\ call.doc.kind = "parallel"
    /\ [electrode |-> 0, pixel |-> 0, x |-> 0, y |-> 0] \in InputItems(call.doc)
    /\ get_by_coords(mapper, 0, 0) = Entry(0, 0, 0, 0)
    /\ get_by_pixel(mapper, 0) = Entry(0, 0, 0, 0)
    /\ get_by_electrode(mapper, 0) = Entry(0, 0, 0, 0)

\* the global coordinates of the 64 x 64 grid
MaxGlobalCoord == 63
GlobalCoords == (0..MaxGlobalCoord) \X (0..MaxGlobalCoord)
\* coords_to_zoom_grid over the grid
ZoomOf == [p \in GlobalCoords |-> coords_to_zoom_grid(p[1], p[2])]
\* the triples (grid_number, local_x, local_y) the claim names
ZoomTriples == (1..16) \X (0..15) \X (0..15)
ZoomOnto == {ZoomOf[p] : p \in GlobalCoords} = ZoomTriples

\* C21: for 0 <= x, y <= 63, coords_to_zoom_grid(x, y) has its grid number
\* in 1..16 and its local coordinates in 0..15, the grid number of the
\* result is the grid number of exactly 256 coordinates of the grid, no
\* other coordinate of the grid has the same result, and every triple of
\* {1..16} x {0..15} x {0..15} is the result of some coordinate.
C21_ZoomBijection ==
    (call.op = "coords_to_zoom_grid" /\ << call.x, call.y >> \in GlobalCoords) =>
        /\ ret.zoom \in ZoomTriples
        /\ \A same \in {{p \in GlobalCoords : ZoomOf[p][1] = ret.zoom[1]}} :
              /\ Cardinality(same) = 256
              /\ \A p \in same : ZoomOf[p] = ret.zoom => p = << call.x, call.y >>
        /\ ZoomOnto

\* the last cell of the grid was converted: grid 13, local (15, 15)
C21_Witness ==
    /\ call.op = "coords_to_zoom_grid"
    /\ call.x = 63
    /\ call.y = 63
    /\ ret.zoom = << 13, 15, 15 >>

\* C22: immediately after l.remove_coordinate(x, y) returns,
\* l.has_coordinate(x, y) is False, for every SelectionList made by
\* create_list or from_dict and changed by add_coordinate and
\* remove_coordinate.
C22_RemovedIsAbsent ==
    (call.op = "remove_coordinate") =>
        ~has_coordinate(objects[call.list], call.x, call.y)

\* C23: current_list is None exactly when lists is empty, and otherwise
\* current_list is a member of lists.
C23_CurrentListInvariant ==
    /\ (manager.current_list = NoneList) <=> (manager.lists = << >>)
    /\ (manager.current_list # NoneList) =>
          manager.current_list \in Members(manager.lists)

\* C24: a load_mapping that returns False leaves mapping_data,
\* electrode_to_data, pixel_to_data and coord_to_data as they were before
\* the call.
C24_FailedLoadKeepsMapper ==
    [][(call'.op = "load_mapping" /\ ~ret'.ok) => mapper' = mapper]_vars

====
